---- MODULE Spec2Model ----
(***************************************************************************)
(* Model of acfunlivedb: the polling loop of main(), the retry executor    *)
(* runThrice, the start-side (cut number) and end-side (summary)           *)
(* goroutines, and the store calls they issue.                             *)
(***************************************************************************)
EXTENDS Integers, Sequences, FiniteSets, Bags, TLC

(* ---------------------------------------------------------------------- *)
(* Bounds and constants                                                    *)
(* ---------------------------------------------------------------------- *)

\* number of goroutines of the loop that are in flight at a time
MaxLive == 1

\* the attempts runThrice makes (for retry := 0; retry < 3; retry++)
MaxRetry == 3

\* the one owner the loop keeps (l.uid != 646973 -> continue)
WatchedUid == 646973

\* live IDs the upstream may list; A and B belong to the watched owner
LiveIDs == {"A", "B", "X"}

\* the owner of a room: X is a room of another owner
Uid(id) == IF id = "X" THEN WatchedUid + 1 ELSE WatchedUid

\* the rooms that appear in the listings of one run: two rooms of the
\* watched owner, or one of them and a room of another owner
Universes == {{"A", "B"}, {"A", "X"}}

\* cut numbers fetchLiveCut may return without error (0: no cut is ready)
CutNums == {0, 12345}

\* durations a summary may report (0: summary not available yet)
Durations == {0, 600000, 1200}

\* the longest liveCutUrl a cut-info response carries
MaxUrl == 4

\* the *live objects there are at a time
MaxObj == 4

\* the count of the first request of fetchLiveList (count := 10000)
BaseCount == 10000

\* the count at which fetchLiveList gives up (count == 1e8)
CeilingCount == 100000000

\* the count the for statement of fetchLiveList stops at (count < 1e9)
LimitCount == 1000000000

VARIABLES
    pc,         \* position of main's loop
    rt,         \* runThrice frame of the loop's fetchLiveList call
    oldList,    \* main's oldList: liveID -> live
    newList,    \* main's newList: liveID -> live
    cancelled,  \* childCtx is done
    db,         \* table acfunlive: liveID -> rows with that liveID
    tasks,      \* the goroutines started by the loop that have not returned
    started,    \* liveIDs the first range statement found absent from oldList
    ended,      \* liveIDs the second range statement found absent from newList
    prevSnap,   \* liveIDs of the snapshot the iteration before this one fetched
    scen,       \* how far the fetched snapshots have followed Scenario (-1: not)
    rooms,      \* the rooms the upstream lists during this run
    limit,      \* the goroutines in flight at a time during this run
    lc,         \* one cut-number goroutine with the responses it receives
    fl,         \* the frame of a fetchLiveList call followed request by request
    hi,         \* handleInput: the console
    lp          \* livePool and the *live each holder refers to

vars == <<pc, rt, oldList, newList, cancelled, db, tasks, started, ended,
          prevSnap, scen, rooms, limit, lc, fl, hi, lp>>

\* what the program does not hold: the upstream's rooms and the schedule
env == <<rooms, limit>>

\* the calls that are followed step by step, each in a run of its own
aux == <<lc, fl, hi, lp>>

(* ---------------------------------------------------------------------- *)
(* runThrice                                                               *)
(* ---------------------------------------------------------------------- *)

\* A frame of runThrice: retry is the loop counter, err the error of the
\* last failed call (0 is nil; the error of the k-th call is named k),
\* calls and sleeps count what the frame has done, phase is where it
\* stands: "call" (about to run f), "sleep" (in time.Sleep), "ok"
\* (returned nil), "fail" (returned the wrapped err), "none" (no frame).
RunInit == [retry |-> 0, err |-> 0, calls |-> 0, sleeps |-> 0, phase |-> "call"]

NoFrame == [retry |-> 0, err |-> 0, calls |-> 0, sleeps |-> 0, phase |-> "none"]

\* f() returned: nil ends the frame, an error is kept and the frame sleeps
RunCall(r, ok) ==
    IF ok
    THEN [r EXCEPT !.calls = @ + 1, !.err = 0, !.phase = "ok"]
    ELSE [r EXCEPT !.calls = @ + 1, !.err = r.calls + 1, !.phase = "sleep"]

\* runThrice with a loop condition that lets a fourth attempt through
RunSleepFour(r) ==
    IF r.retry + 1 <= MaxRetry
    THEN [r EXCEPT !.retry = @ + 1, !.sleeps = @ + 1, !.phase = "call"]
    ELSE [r EXCEPT !.retry = @ + 1, !.sleeps = @ + 1, !.phase = "fail"]

\* time.Sleep returned: retry++, and the loop condition is tested
RunSleep(r) ==
    IF r.retry + 1 < MaxRetry
    THEN [r EXCEPT !.retry = @ + 1, !.sleeps = @ + 1, !.phase = "call"]
    ELSE [r EXCEPT !.retry = @ + 1, !.sleeps = @ + 1, !.phase = "fail"]

(* ---------------------------------------------------------------------- *)
(* The store                                                               *)
(* ---------------------------------------------------------------------- *)

EmptyDB == [id \in LiveIDs |-> <<>>]

\* an insert that replaces the row of a liveID stored already
insertReplace(d, l) ==
    [d EXCEPT ![l.liveID] =
        <<[uid |-> l.uid, duration |-> l.duration, liveCutNum |-> l.liveCutNum]>>]

\* insert: insert-or-ignore keyed by liveID
insert(d, l) ==
    IF d[l.liveID] # <<>>
    THEN d
    ELSE [d EXCEPT ![l.liveID] =
            <<[uid |-> l.uid, duration |-> l.duration, liveCutNum |-> l.liveCutNum]>>]

\* an update that writes the duration whatever is stored
updateLiveDurationAlways(d, id, dur) ==
    [d EXCEPT ![id] = [i \in 1..Len(@) |-> [@[i] EXCEPT !.duration = dur]]]

\* updateLiveDuration: only ever changes the field from zero to non-zero
updateLiveDuration(d, id, dur) ==
    [d EXCEPT ![id] =
        [i \in 1..Len(@) |->
            IF @[i].duration = 0 /\ dur # 0
            THEN [@[i] EXCEPT !.duration = dur] ELSE @[i]]]

\* updateLiveCutNum: only ever changes the field from zero to non-zero
updateLiveCutNum(d, id, num) ==
    [d EXCEPT ![id] =
        [i \in 1..Len(@) |->
            IF @[i].liveCutNum = 0 /\ num # 0
            THEN [@[i] EXCEPT !.liveCutNum = num] ELSE @[i]]]

(* ---------------------------------------------------------------------- *)
(* fetchLiveList                                                           *)
(* ---------------------------------------------------------------------- *)

\* the live fetchLiveList builds for a listed room
NewLive(id) == [liveID |-> id, uid |-> Uid(id), duration |-> 0, liveCutNum |-> 0]

\* the map fetchLiveList returns when the upstream lists the rooms S
LiveList(S) == [id \in S |-> NewLive(id)]

\* what the list endpoint may answer: client.Do fails (net), the body does
\* not gunzip or does not parse (body), channelListData.result is missing
\* or not 0, and else pcursor (more is FALSE for "no_more") and liveList
ListResponse(net, body, hasResult, result, more, S) ==
    [net |-> net, body |-> body, hasResult |-> hasResult, result |-> result,
     more |-> more, liveList |-> S]

NoList == ListResponse(FALSE, "none", FALSE, 0, FALSE, {})

ListResponses ==
    {ListResponse(FALSE, "none", FALSE, 0, FALSE, {})}
        \cup {ListResponse(TRUE, b, FALSE, 0, FALSE, {}) : b \in {"badgzip", "garbage"}}
        \cup {ListResponse(TRUE, "json", FALSE, 0, FALSE, {})}
        \cup {ListResponse(TRUE, "json", TRUE, 1, FALSE, {})}
        \cup {ListResponse(TRUE, "json", TRUE, 0, m, S) :
                m \in BOOLEAN, S \in SUBSET LiveIDs}

\* the frame of fetchLiveList: count is the loop variable, reqs the
\* requests made, v the response parsed last, e and list what it returns
\* (pc "ok" or "err"); pc "req" is the head of the loop body
NewFetch ==
    [pc |-> "req", count |-> BaseCount, reqs |-> 0, v |-> NoList,
     e |-> "nil", list |-> LiveList({})]

\* no call of fetchLiveList is followed
NoFetch == [NewFetch EXCEPT !.pc = "idle"]

\* a fetchLiveList without its deferred recover: the panic leaves it
Unrecovered(f, k) == [f EXCEPT !.pc = "crashed", !.e = k]

\* the deferred recover() of fetchLiveList: the panic k becomes e
Recover(f, k) == [f EXCEPT !.pc = "err", !.e = k]

\* a loop that doubles count
NextCountTwice(c) == c * 2

\* count *= 10
NextCount(c) == c * 10

\* liveList := v.GetArray("liveList") and the range over it
Build(f) == [f EXCEPT !.pc = "ok", !.list = LiveList(f.v.liveList)]

\* one run of the body of the for statement on the response resp, and the
\* loop condition that follows it
Request(f, resp) ==
    LET g == [f EXCEPT !.reqs = @ + 1] IN
    IF ~resp.net THEN Recover(g, "transport")
    ELSE IF resp.body = "badgzip" THEN Recover(g, "gunzip")
    ELSE IF resp.body = "garbage" THEN Recover(g, "parse")
    ELSE IF ~resp.hasResult \/ resp.result # 0
         THEN Recover([g EXCEPT !.v = resp], "result")
    ELSE LET h == [g EXCEPT !.v = resp] IN
         IF ~resp.more THEN Build(h)
         ELSE IF h.count = CeilingCount THEN Recover(h, "ceiling")
         ELSE IF NextCount(h.count) < LimitCount
              THEN [h EXCEPT !.count = NextCount(h.count)]
              ELSE Build([h EXCEPT !.count = NextCount(h.count)])

(* ---------------------------------------------------------------------- *)
(* livePool                                                                *)
(* ---------------------------------------------------------------------- *)

\* the *live objects, by address
Objects == 1..MaxObj

\* livePool and the references to *live objects: pool holds the objects
\* Put and not taken again, old[id] is the object oldList[id] points to,
\* new[id] the object the newList fetched last points to, held the pairs
\* of a room and the object its end-side goroutine was given
NoPool ==
    [pool |-> {}, old |-> [id \in {} |-> 1], new |-> [id \in {} |-> 1], held |-> {}]

Range(f) == {f[x] : x \in DOMAIN f}

\* the objects nothing refers to and the pool does not hold: what New
\* returns is one of them
Unused(p) ==
    Objects \ (p.pool \cup Range(p.old) \cup Range(p.new) \cup {h[2] : h \in p.held})

\* the k lowest addresses of U
Lowest(U, k) == {o \in U : Cardinality({q \in U : q < o}) < k}

\* livePool.Get() for each room of S: every room gets an object of its
\* own, taken from the pool or made by New
Gets(p, S) ==
    {g \in [S -> Objects] :
        /\ \A a \in S, b \in S : a # b => g[a] # g[b]
        /\ LET made == Range(g) \ p.pool IN
            made = Lowest(Unused(p), Cardinality(made))}

(* ---------------------------------------------------------------------- *)
(* fetchLiveCut                                                            *)
(* ---------------------------------------------------------------------- *)

\* the characters of a liveCutUrl: the slash, two digits and a letter
Chars == {"/", "1", "2", "a"}

IsDigit(c) == c \in {"1", "2"}

DigitVal(c) == IF c = "1" THEN 1 ELSE 2

\* the strings liveCutUrl may hold
Urls == UNION {[1..n -> Chars] : n \in 0..MaxUrl}

\* the nil error
NoErr == "nil"

\* what the cut-info endpoint may answer: client.Do fails (net), the body
\* does not gunzip or does not parse (body), the field result is missing or
\* not 0, and else liveCutStatus and liveCutUrl are read
CutResponse(net, body, hasResult, result, status, url) ==
    [net |-> net, body |-> body, hasResult |-> hasResult, result |-> result,
     liveCutStatus |-> status, liveCutUrl |-> url]

NoResponse == CutResponse(FALSE, "none", FALSE, 0, 0, <<>>)

CutResponses ==
    {CutResponse(FALSE, "none", FALSE, 0, 0, <<>>)}
        \cup {CutResponse(TRUE, b, FALSE, 0, 0, <<>>) : b \in {"badgzip", "garbage"}}
        \cup {CutResponse(TRUE, "json", FALSE, 0, 1, <<"/", "1">>)}
        \cup {CutResponse(TRUE, "json", TRUE, 1, 1, <<"/", "1">>)}
        \cup {CutResponse(TRUE, "json", TRUE, 0, st, u) :
                st \in {0, 2}, u \in {<<>>, <<"/", "1">>}}
        \cup {CutResponse(TRUE, "json", TRUE, 0, 1, u) : u \in Urls}

\* the index at which the run of digits that holds position j ends
RECURSIVE DigitsEnd(_, _)
DigitsEnd(u, j) ==
    IF j < Len(u) /\ IsDigit(u[j + 1]) THEN DigitsEnd(u, j + 1) ELSE j

\* regexp.MustCompile(`/[0-9]+`).FindAllString(url, -1), scanning from i:
\* the leftmost matches, each as long as it can be, none overlapping
RECURSIVE FindAllString(_, _)
FindAllString(u, i) ==
    IF i >= Len(u) THEN <<>>
    ELSE IF u[i] = "/" /\ IsDigit(u[i + 1])
         THEN LET j == DigitsEnd(u, i + 1) IN
                <<SubSeq(u, i, j)>> \o FindAllString(u, j + 1)
         ELSE FindAllString(u, i + 1)

\* strconv.Atoi of a string of digits
RECURSIVE Atoi(_)
Atoi(d) ==
    IF d = <<>> THEN 0
    ELSE 10 * Atoi(SubSeq(d, 1, Len(d) - 1)) + DigitVal(d[Len(d)])

\* the deferred recover(): num = 0 and the panic becomes the error e
Recovered(k) == [num |-> 0, e |-> k]

\* a fetchLiveCut that is content with the first match of several
fetchLiveCutFirst(resp) ==
    IF ~resp.net THEN Recovered("transport")
    ELSE IF resp.body = "badgzip" THEN Recovered("gunzip")
    ELSE IF resp.body = "garbage" THEN Recovered("parse")
    ELSE IF ~resp.hasResult \/ resp.result # 0 THEN Recovered("result")
    ELSE IF resp.liveCutStatus # 1 THEN [num |-> 0, e |-> NoErr]
    ELSE LET nums == FindAllString(resp.liveCutUrl, 1) IN
            IF Len(nums) < 1 THEN Recovered("extract")
            ELSE [num |-> Atoi(Tail(nums[1])), e |-> NoErr]

\* fetchLiveCut(uid, liveID) on the response resp: (num, e)
fetchLiveCut(resp) ==
    IF ~resp.net THEN Recovered("transport")
    ELSE IF resp.body = "badgzip" THEN Recovered("gunzip")
    ELSE IF resp.body = "garbage" THEN Recovered("parse")
    ELSE IF ~resp.hasResult \/ resp.result # 0 THEN Recovered("result")
    ELSE IF resp.liveCutStatus # 1 THEN [num |-> 0, e |-> NoErr]
    ELSE LET nums == FindAllString(resp.liveCutUrl, 1) IN
            IF Len(nums) # 1 THEN Recovered("extract")
            ELSE [num |-> Atoi(Tail(nums[1])), e |-> NoErr]

(* ---------------------------------------------------------------------- *)
(* The console: handleInput, handleQuery, getPlayback                      *)
(* ---------------------------------------------------------------------- *)

\* the two programs of the repository: the one with the store, whose
\* console knows list_j, and the one without
Programs == {"part_002", "main.go"}

\* the lines typed, as strings.Fields splits them
Lines ==
    {<<>>, <<"quit">>, <<"quit", "now">>, <<"help">>, <<"list_j">>,
     <<"getplayback">>, <<"getplayback", "A">>, <<"fetch">>, <<"fetch", "all">>,
     <<"fetch", "646973">>, <<"fetch_j">>}

\* the links a Playback may hold
PlaybackUrls == {"", "ali", "tx"}

Playback(u, b) == [URL |-> u, BackupURL |-> b]

NoPlayback == Playback("", "")

\* what ac.GetPlayback may return
Playbacks == {Playback(u, b) : u \in PlaybackUrls, b \in PlaybackUrls}

\* what playback.Distinguish() may return for pb: for each provider one of
\* the links of pb, or nothing
Distinguished(pb) ==
    {[ali |-> a, tx |-> t] : a \in {"", pb.URL, pb.BackupURL},
                              t \in {"", pb.URL, pb.BackupURL}}

\* the outcomes of the calls a runThrice makes: outs[k] is TRUE when the
\* k-th call returns nil; the first n calls fail and the next succeeds
Outcomes == {[k \in 1..MaxRetry |-> k > n] : n \in 0..MaxRetry}

\* runThrice run to its return from the frame r
RECURSIVE RunAll(_, _)
RunAll(r, outs) ==
    IF r.phase \in {"ok", "fail"} THEN r
    ELSE IF r.phase = "sleep" THEN RunAll(RunSleep(r), outs)
    ELSE RunAll(RunCall(r, outs[r.calls + 1]), outs)

\* getPlayback(liveID): f is the frame its runThrice returned with, pb what
\* the last ac.GetPlayback returned and d what pb.Distinguish() returns;
\* err is 0 for nil
getPlayback(f, pb, d) ==
    IF f.phase = "fail"
    THEN [err |-> f.err, playback |-> NoPlayback]
    ELSE IF pb.URL # "" /\ d.ali # "" /\ d.tx # ""
         THEN [err |-> 0, playback |-> Playback(d.ali, d.tx)]
         ELSE [err |-> 0, playback |-> pb]

\* the console before handleInput runs
NoConsole ==
    [pc |-> "idle", prog |-> "part_002", cmd |-> <<>>, out |-> "none",
     got |-> NoPlayback, dis |-> [ali |-> "", tx |-> ""], err |-> 0,
     playback |-> NoPlayback]

\* handleInput in scanner.Scan(), having printed helpMsg
NewConsole(prog) == [NoConsole EXCEPT !.pc = "scan", !.prog = prog, !.out = "help"]

\* no cut-number goroutine is followed
NoLookup ==
    [pc |-> "idle", rt |-> NoFrame, resp |-> NoResponse, num |-> 0, e |-> NoErr]

\* the goroutine of the first range statement as it starts: resp is the
\* response of its last call, num and e what fetchLiveCut returned for it
NewLookup ==
    [pc |-> "run", rt |-> RunInit, resp |-> NoResponse, num |-> 0, e |-> NoErr]

(* ---------------------------------------------------------------------- *)
(* The loop of main                                                        *)
(* ---------------------------------------------------------------------- *)

\* main has not returned: its goroutines still run
Alive == pc \notin {"exited", "stopped"}

\* the test of the first range statement made against newList
IsNewWrongMap(id) == id \notin DOMAIN newList

\* if _, ok := oldList[l.liveID]; !ok
IsNew(id) == id \notin DOMAIN oldList

\* the test of the second range statement made against oldList
IsGoneWrongMap(id) == id \notin DOMAIN oldList

\* if _, ok := newList[l.liveID]; !ok
IsGone(id) == id \notin DOMAIN newList

\* the loop without its owner test
WatchedAll(l) == TRUE

\* if l.uid != 646973 { continue }
Watched(l) == l.uid = WatchedUid

\* go func(uid, liveID) {...}(l.uid, l.liveID)
CutTask(l) ==
    [kind |-> "cut", liveID |-> l.liveID, pc |-> "run", rt |-> RunInit,
     err |-> 0, val |-> 0, ops |-> <<>>]

\* an end-side goroutine without its sleep of 10 s
EndTaskNoGrace(l) ==
    [kind |-> "end", liveID |-> l.liveID, pc |-> "run", rt |-> RunInit,
     err |-> 0, val |-> 0, ops |-> <<>>]

\* go func(l *live) {...}(l)
EndTask(l) ==
    [kind |-> "end", liveID |-> l.liveID, pc |-> "grace", rt |-> NoFrame,
     err |-> 0, val |-> 0, ops |-> <<>>]

\* the state main enters its loop in
Start ==
    /\ pc = "top"
    /\ rt = NoFrame
    /\ oldList = LiveList({})
    /\ newList = LiveList({})
    /\ cancelled = FALSE
    /\ db = EmptyDB
    /\ tasks = EmptyBag
    /\ started = {}
    /\ ended = {}
    /\ prevSnap = {}
    /\ scen = 0
    /\ rooms \in Universes

\* no call is followed step by step
Idle ==
    /\ lc = NoLookup
    /\ fl = NoFetch
    /\ hi = NoConsole
    /\ lp = NoPool

Init == Start /\ limit = MaxLive /\ Idle

\* a run with one more goroutine in flight
InitPair == Start /\ limit = MaxLive + 1 /\ Idle

\* a loop that leaves only when its goroutines have returned
LoopBreakJoined ==
    /\ pc = "top"
    /\ cancelled
    /\ tasks = EmptyBag
    /\ pc' = "stopped"
    /\ UNCHANGED <<rt, oldList, newList, cancelled, db, tasks, started, ended, prevSnap, scen, env, aux>>

\* select: childCtx.Done() -> break Loop, and main returns
LoopBreak ==
    /\ pc = "top"
    /\ cancelled
    /\ pc' = "stopped"
    /\ UNCHANGED <<rt, oldList, newList, cancelled, db, tasks, started, ended, prevSnap, scen, env, aux>>

\* select: default -> var newList; runThrice is entered
LoopTop ==
    /\ pc = "top"
    /\ ~cancelled
    /\ pc' = "fetch"
    /\ rt' = RunInit
    /\ newList' = LiveList({})
    /\ UNCHANGED <<oldList, cancelled, db, tasks, started, ended, prevSnap, scen, env, aux>>

\* the rooms for which an iteration starts a goroutine when the upstream
\* lists the rooms S
Spawns(S) ==
    {id \in S \ DOMAIN oldList : Uid(id) = WatchedUid}
        \cup {id \in DOMAIN oldList \ S : Uid(id) = WatchedUid}

\* the snapshots of the end-to-end scenario
Scenario == <<{"A"}, {"A", "B"}, {"B"}>>

\* scen once the snapshot S is fetched: the next snapshot of Scenario moves
\* it on, any other snapshot ends it
Follow(n, S) ==
    IF n >= 0 /\ n < Len(Scenario) /\ S = Scenario[n + 1] THEN n + 1 ELSE -1

\* fetchLiveList returned the rooms S: runThrice returns nil
LoopFetchOK(S) ==
    /\ pc = "fetch"
    /\ S \subseteq rooms
    /\ BagCardinality(tasks) + Cardinality(Spawns(S)) <= limit
    /\ rt' = RunCall(rt, TRUE)
    /\ newList' = LiveList(S)
    /\ scen' = Follow(scen, S)
    /\ pc' = "new"
    /\ UNCHANGED <<oldList, cancelled, db, tasks, started, ended, prevSnap, env, aux>>

\* fetchLiveList returned an error: newList is nil, runThrice sleeps
LoopFetchErr ==
    /\ pc = "fetch"
    /\ rt' = RunCall(rt, FALSE)
    /\ pc' = "backoff"
    /\ UNCHANGED <<oldList, newList, cancelled, db, tasks, started, ended, prevSnap, scen, env, aux>>

\* a loop that fetches again when runThrice has returned its error
AfterBackoffGoOn(r) == "fetch"

\* where the loop goes when the sleep of runThrice is over: a further
\* attempt, or (runThrice returned an error) main returns
AfterBackoff(r) == IF r.phase = "fail" THEN "exited" ELSE "fetch"

LoopBackoff ==
    /\ pc = "backoff"
    /\ rt' = RunSleep(rt)
    /\ pc' = AfterBackoff(rt')
    /\ UNCHANGED <<oldList, newList, cancelled, db, tasks, started, ended, prevSnap, scen, env, aux>>

\* the rooms of newList that pass the test of the first range statement
Started == {id \in DOMAIN newList : IsNew(id)}

\* the rooms of oldList that pass the test of the second range statement
Ended == {id \in DOMAIN oldList : IsGone(id)}

\* a first range statement that starts the goroutines and inserts nothing
InsertNone(d, L) == d

\* the store after insert(ctx, l) for every l of the set, in any order
RECURSIVE InsertAll(_, _)
InsertAll(d, L) ==
    IF L = {} THEN d
    ELSE LET l == CHOOSE x \in L : TRUE IN InsertAll(insert(d, l), L \ {l})

\* for _, l := range newList {...}: the new rooms of the watched owner are
\* inserted and a cut-number goroutine is started for each
LoopNew ==
    /\ pc = "new"
    /\ started' = Started
    /\ LET W == {newList[id] : id \in {i \in Started : Watched(newList[i])}} IN
        /\ db' = InsertAll(db, W)
        /\ tasks' = tasks (+) SetToBag({CutTask(l) : l \in W})
    /\ rt' = NoFrame
    /\ pc' = "old"
    /\ UNCHANGED <<oldList, newList, cancelled, ended, prevSnap, scen, env, aux>>

\* for _, l := range oldList {...}: an end-side goroutine is started for
\* each room of the watched owner that is gone
LoopOld ==
    /\ pc = "old"
    /\ ended' = Ended
    /\ LET W == {oldList[id] : id \in {i \in Ended : Watched(oldList[i])}} IN
        tasks' = tasks (+) SetToBag({EndTask(l) : l \in W})
    /\ pc' = "assign"
    /\ UNCHANGED <<rt, oldList, newList, cancelled, db, started, prevSnap, scen, env, aux>>

\* the snapshot kept for the next iteration: oldList = newList
NextOldList == newList

\* a loop that waits for its goroutines before it goes on
LoopAssignJoined ==
    /\ pc = "assign"
    /\ tasks = EmptyBag
    /\ oldList' = NextOldList
    /\ started' = {}
    /\ ended' = {}
    /\ prevSnap' = DOMAIN newList
    /\ pc' = "sleep"
    /\ UNCHANGED <<rt, newList, cancelled, db, tasks, scen, env, aux>>

\* oldList = newList, and time.Sleep(20 * time.Second) begins
LoopAssign ==
    /\ pc = "assign"
    /\ oldList' = NextOldList
    /\ started' = {}
    /\ ended' = {}
    /\ prevSnap' = DOMAIN newList
    /\ pc' = "sleep"
    /\ UNCHANGED <<rt, newList, cancelled, db, tasks, scen, env, aux>>

\* time.Sleep(20 * time.Second) returned
LoopSleep ==
    /\ pc = "sleep"
    /\ pc' = "top"
    /\ UNCHANGED <<rt, oldList, newList, cancelled, db, tasks, started, ended, prevSnap, scen, env, aux>>

\* quitSignal: a signal or the quit command arrived, cancel() is called
Cancel ==
    /\ Alive
    /\ ~cancelled
    /\ cancelled' = TRUE
    /\ UNCHANGED <<pc, rt, oldList, newList, db, tasks, started, ended, prevSnap, scen, env, aux>>

(* ---------------------------------------------------------------------- *)
(* The goroutines                                                          *)
(* ---------------------------------------------------------------------- *)

Live == BagToSet(tasks)

\* the frame as its caller sees it: gone once runThrice has returned
Popped(r) == IF r.phase \in {"ok", "fail"} THEN NoFrame ELSE r

\* what runThrice returns to its caller: nil, or the wrapped last error
Returned(r) == IF r.phase = "fail" THEN r.err ELSE 0

\* the goroutine t has moved on to u
Step(t, u) == (tasks (-) SetToBag({t})) (+) SetToBag({u})

\* fetchLiveCut returned num without error: runThrice returns nil
CutCallOK(t, num) ==
    /\ Alive
    /\ t \in Live /\ t.kind = "cut" /\ t.pc = "run" /\ t.rt.phase = "call"
    /\ tasks' = Step(t, [t EXCEPT !.rt = Popped(RunCall(t.rt, TRUE)),
                                   !.val = num, !.pc = "update"])
    /\ UNCHANGED <<pc, rt, oldList, newList, cancelled, db, started, ended, prevSnap, scen, env, aux>>

\* fetchLiveCut returned an error (num is 0): runThrice sleeps
CutCallErr(t) ==
    /\ Alive
    /\ t \in Live /\ t.kind = "cut" /\ t.pc = "run" /\ t.rt.phase = "call"
    /\ tasks' = Step(t, [t EXCEPT !.rt = RunCall(t.rt, FALSE), !.val = 0])
    /\ UNCHANGED <<pc, rt, oldList, newList, cancelled, db, started, ended, prevSnap, scen, env, aux>>

\* a goroutine that logs and, with no return, goes on to its store call
AfterTaskBackoffOn(r) == IF r.phase = "fail" THEN "update" ELSE "run"

\* where a goroutine goes when the sleep of its runThrice is over: a
\* further attempt, or (err != nil) the log line before its return
AfterTaskBackoff(r) == IF r.phase = "fail" THEN "failed" ELSE "run"

\* the sleep of the goroutine's runThrice is over
TaskBackoff(t) ==
    /\ Alive
    /\ t \in Live /\ t.pc = "run" /\ t.rt.phase = "sleep"
    /\ LET r == RunSleep(t.rt) IN
        tasks' = Step(t, [t EXCEPT !.rt = Popped(r), !.err = Returned(r),
                                   !.pc = AfterTaskBackoff(r)])
    /\ UNCHANGED <<pc, rt, oldList, newList, cancelled, db, started, ended, prevSnap, scen, env, aux>>

\* updateLiveCutNum(ctx, liveID, num), the last statement
CutUpdate(t) ==
    /\ Alive
    /\ t \in Live /\ t.kind = "cut" /\ t.pc = "update"
    /\ db' = updateLiveCutNum(db, t.liveID, t.val)
    /\ tasks' = Step(t, [t EXCEPT !.pc = "done",
                                   !.ops = Append(@, "updateLiveCutNum")])
    /\ UNCHANGED <<pc, rt, oldList, newList, cancelled, started, ended, prevSnap, scen, env, aux>>

\* time.Sleep(10 * time.Second) at the head of the end-side goroutine
\* returned: runThrice is entered
EndGrace(t) ==
    /\ Alive
    /\ t \in Live /\ t.kind = "end" /\ t.pc = "grace"
    /\ tasks' = Step(t, [t EXCEPT !.pc = "run", !.rt = RunInit])
    /\ UNCHANGED <<pc, rt, oldList, newList, cancelled, db, started, ended, prevSnap, scen, env, aux>>

\* an end-side goroutine without its test of summary.Duration
AfterSummaryNoTest(dur) == "insert"

\* where the end-side goroutine goes with the summary's duration
AfterSummary(dur) == IF dur = 0 THEN "zero" ELSE "insert"

\* ac.GetSummary returned a summary with duration dur
EndCallOK(t, dur) ==
    /\ Alive
    /\ t \in Live /\ t.kind = "end" /\ t.pc = "run" /\ t.rt.phase = "call"
    /\ tasks' = Step(t, [t EXCEPT !.rt = Popped(RunCall(t.rt, TRUE)),
                                   !.val = dur, !.pc = AfterSummary(dur)])
    /\ UNCHANGED <<pc, rt, oldList, newList, cancelled, db, started, ended, prevSnap, scen, env, aux>>

\* ac.GetSummary returned an error: runThrice sleeps
EndCallErr(t) ==
    /\ Alive
    /\ t \in Live /\ t.kind = "end" /\ t.pc = "run" /\ t.rt.phase = "call"
    /\ tasks' = Step(t, [t EXCEPT !.rt = RunCall(t.rt, FALSE)])
    /\ UNCHANGED <<pc, rt, oldList, newList, cancelled, db, started, ended, prevSnap, scen, env, aux>>

\* insert(ctx, l) of the end-side goroutine
EndInsert(t) ==
    /\ Alive
    /\ t \in Live /\ t.kind = "end" /\ t.pc = "insert"
    /\ db' = insert(db, NewLive(t.liveID))
    /\ tasks' = Step(t, [t EXCEPT !.pc = "update", !.ops = Append(@, "insert")])
    /\ UNCHANGED <<pc, rt, oldList, newList, cancelled, started, ended, prevSnap, scen, env, aux>>

\* updateLiveDuration(ctx, l.liveID, summary.Duration), the last statement
EndUpdate(t) ==
    /\ Alive
    /\ t \in Live /\ t.kind = "end" /\ t.pc = "update"
    /\ db' = updateLiveDuration(db, t.liveID, t.val)
    /\ tasks' = Step(t, [t EXCEPT !.pc = "done",
                                   !.ops = Append(@, "updateLiveDuration")])
    /\ UNCHANGED <<pc, rt, oldList, newList, cancelled, started, ended, prevSnap, scen, env, aux>>

\* the goroutine returns: after its log line, or at its end
TaskReturn(t) ==
    /\ Alive
    /\ t \in Live /\ t.pc \in {"failed", "zero", "done"}
    /\ tasks' = tasks (-) SetToBag({t})
    /\ UNCHANGED <<pc, rt, oldList, newList, cancelled, db, started, ended, prevSnap, scen, env, aux>>

Next ==
    \/ LoopTop
    \/ \E S \in SUBSET LiveIDs : LoopFetchOK(S)
    \/ LoopFetchErr
    \/ LoopBackoff
    \/ LoopNew
    \/ LoopOld
    \/ LoopAssign
    \/ LoopSleep
    \/ \E t \in Live : \E num \in CutNums : CutCallOK(t, num)
    \/ \E t \in Live : CutCallErr(t)
    \/ \E t \in Live : TaskBackoff(t)
    \/ \E t \in Live : CutUpdate(t)
    \/ \E t \in Live : EndGrace(t)
    \/ \E t \in Live : \E dur \in Durations : EndCallOK(t, dur)
    \/ \E t \in Live : EndCallErr(t)
    \/ \E t \in Live : EndInsert(t)
    \/ \E t \in Live : EndUpdate(t)
    \/ \E t \in Live : TaskReturn(t)

Spec == Init /\ [][Next]_vars

SpecPair == InitPair /\ [][Next]_vars

\* the program with its shutdown
NextQuit == Next \/ Cancel \/ LoopBreak

SpecQuit == Init /\ [][NextQuit]_vars

\* the steps of main's own goroutine
LoopStep ==
    \/ LoopBreak
    \/ LoopTop
    \/ \E S \in SUBSET LiveIDs : LoopFetchOK(S)
    \/ LoopFetchErr
    \/ LoopBackoff
    \/ LoopNew
    \/ LoopOld
    \/ LoopAssign
    \/ LoopSleep

\* main's goroutine keeps running: each sleep ends, each call of
\* fetchLiveList returns; nothing is assumed of the other goroutines
SpecQuitFair == SpecQuit /\ WF_vars(LoopStep)

(* ---------------------------------------------------------------------- *)
(* One cut-number goroutine, response by response                          *)
(* ---------------------------------------------------------------------- *)

\* the room whose goroutine is followed
LookupID == "A"

\* the state in which the first range statement has inserted the room and
\* started its goroutine
InitCut ==
    /\ pc = "old"
    /\ rt = NoFrame
    /\ oldList = LiveList({})
    /\ newList = LiveList({LookupID})
    /\ cancelled = FALSE
    /\ db = insert(EmptyDB, NewLive(LookupID))
    /\ tasks = EmptyBag
    /\ started = {LookupID}
    /\ ended = {}
    /\ prevSnap = {}
    /\ scen = Follow(0, {LookupID})
    /\ rooms \in Universes
    /\ limit = MaxLive
    /\ lc = NewLookup
    /\ fl = NoFetch
    /\ hi = NoConsole
    /\ lp = NoPool

main == <<pc, rt, oldList, newList, cancelled, tasks, started, ended, prevSnap, scen, env>>

\* num, err = fetchLiveCut(uid, liveID) on the response resp, and what
\* runThrice does with err
LookupCall(resp) ==
    /\ lc.pc = "run" /\ lc.rt.phase = "call"
    /\ LET r == fetchLiveCut(resp)
           f == RunCall(lc.rt, r.e = NoErr) IN
        lc' = [lc EXCEPT !.resp = resp, !.num = r.num, !.e = r.e, !.rt = f,
                         !.pc = IF f.phase = "ok" THEN "update" ELSE "run"]
    /\ UNCHANGED <<main, db, fl, hi, lp>>

\* the sleep of the goroutine's runThrice is over
LookupBackoff ==
    /\ lc.pc = "run" /\ lc.rt.phase = "sleep"
    /\ LET f == RunSleep(lc.rt) IN
        lc' = [lc EXCEPT !.rt = f, !.pc = AfterTaskBackoff(f)]
    /\ UNCHANGED <<main, db, fl, hi, lp>>

\* updateLiveCutNum(ctx, liveID, num)
LookupUpdate ==
    /\ lc.pc = "update"
    /\ db' = updateLiveCutNum(db, LookupID, lc.num)
    /\ lc' = [lc EXCEPT !.pc = "done"]
    /\ UNCHANGED <<main, fl, hi, lp>>

NextCut ==
    \/ \E resp \in CutResponses : LookupCall(resp)
    \/ LookupBackoff
    \/ LookupUpdate

SpecCut == InitCut /\ [][NextCut]_vars

(* ---------------------------------------------------------------------- *)
(* handleInput, line by line                                               *)
(* ---------------------------------------------------------------------- *)

InitConsole ==
    /\ Start
    /\ limit = MaxLive
    /\ lc = NoLookup
    /\ fl = NoFetch
    /\ hi \in {NewConsole(p) : p \in Programs}
    /\ lp = NoPool

\* the line cmd is read and handled, printing out
Handled(cmd, out) == [hi EXCEPT !.cmd = cmd, !.out = out]

\* a panic leaves handleInput: the process ends
Crashed(cmd) == [hi EXCEPT !.cmd = cmd, !.out = "panic", !.pc = "crashed"]

\* the case of the switch that handles the line cmd of the program prog
Case(prog, cmd) ==
    IF cmd = <<>> THEN "empty"
    ELSE IF cmd = <<"quit">> THEN "quit"
    ELSE IF cmd[1] = "list_j" /\ prog = "part_002" THEN "list_j"
    ELSE IF cmd[1] \in {"getplayback", "fetch", "fetch_j"} THEN cmd[1]
    ELSE "default"

\* an empty line, or a line no case of the switch knows: helpMsg
ConHelp(cmd) ==
    /\ hi.pc = "scan"
    /\ Case(hi.prog, cmd) \in {"empty", "default"}
    /\ hi' = Handled(cmd, "help")
    /\ UNCHANGED <<main, db, lc, fl, lp>>

\* quit: handleInput sends on the channel quit
ConQuit(cmd) ==
    /\ hi.pc = "scan"
    /\ Case(hi.prog, cmd) = "quit"
    /\ hi' = [Handled(cmd, "none") EXCEPT !.pc = "send"]
    /\ UNCHANGED <<main, db, lc, fl, lp>>

\* quitSignal, in its select, receives from quit and calls cancel();
\* handleInput breaks out of its loop and returns
ConSend ==
    /\ hi.pc = "send"
    /\ ~cancelled
    /\ cancelled' = TRUE
    /\ hi' = [hi EXCEPT !.pc = "returned"]
    /\ UNCHANGED <<pc, rt, oldList, newList, db, tasks, started, ended, prevSnap, scen, env, lc, fl, lp>>

\* list_j: handleQuery(ctx, 646973, -1); ok is FALSE when QueryContext,
\* Scan or rows.Err() returns an error, which checkErr turns into a panic
ConQuery(cmd, ok) ==
    /\ hi.pc = "scan"
    /\ Case(hi.prog, cmd) = "list_j"
    /\ hi' = IF ok
             THEN Handled(cmd, IF \E id \in LiveIDs : db[id] # <<>> THEN "rows" ELSE "norows")
             ELSE Crashed(cmd)
    /\ UNCHANGED <<main, db, lc, fl, lp>>

\* getplayback: getPlayback for each liveID of cmd[1:]
ConPlayback(cmd, outs, pb, d) ==
    /\ hi.pc = "scan"
    /\ Case(hi.prog, cmd) = "getplayback"
    /\ hi' = IF Len(cmd) = 1
             THEN Handled(cmd, "wait")
             ELSE LET f == RunAll(RunInit, outs)
                      g == IF f.phase = "fail" THEN NoPlayback ELSE pb
                      r == getPlayback(f, g, d) IN
                  [Handled(cmd, IF r.err # 0 THEN "error" ELSE "links")
                      EXCEPT !.got = g, !.dis = d, !.err = r.err,
                             !.playback = r.playback]
    /\ UNCHANGED <<main, db, lc, fl, lp>>

\* fetch: fetchLiveList() returned an error (ok is FALSE) or the rooms S;
\* main.go then reads cmd[1]
ConFetch(cmd, ok, S) ==
    /\ hi.pc = "scan"
    /\ Case(hi.prog, cmd) = "fetch"
    /\ S \subseteq rooms
    /\ hi' = IF ~ok THEN Handled(cmd, "error")
             ELSE IF hi.prog = "part_002" THEN Handled(cmd, "list")
             ELSE IF Len(cmd) < 2 THEN Crashed(cmd)
             ELSE Handled(cmd, "list")
    /\ UNCHANGED <<main, db, lc, fl, lp>>

\* fetch_j: the rooms of the watched owner are printed or saved
ConFetchJ(cmd, ok, S) ==
    /\ hi.pc = "scan"
    /\ Case(hi.prog, cmd) = "fetch_j"
    /\ S \subseteq rooms
    /\ hi' = IF ~ok THEN Handled(cmd, "error")
             ELSE IF \E id \in S : Watched(NewLive(id)) THEN Handled(cmd, "list")
             ELSE Handled(cmd, "notfound")
    /\ UNCHANGED <<main, db, lc, fl, lp>>

\* scanner.Scan() returned false: at the end of the input scanner.Err() is
\* nil and handleInput returns; after a read error or a line too long for
\* the scanner checkErr panics
ConEnd(ok) ==
    /\ hi.pc = "scan"
    /\ hi' = IF ok THEN [hi EXCEPT !.pc = "returned"]
                   ELSE [hi EXCEPT !.out = "panic", !.pc = "crashed"]
    /\ UNCHANGED <<main, db, lc, fl, lp>>

NextConsole ==
    \/ \E cmd \in Lines : ConHelp(cmd)
    \/ \E cmd \in Lines : ConQuit(cmd)
    \/ ConSend
    \/ \E cmd \in Lines, ok \in BOOLEAN : ConQuery(cmd, ok)
    \/ \E cmd \in Lines, outs \in Outcomes, pb \in Playbacks :
            \E d \in Distinguished(pb) : ConPlayback(cmd, outs, pb, d)
    \/ \E cmd \in Lines, ok \in BOOLEAN, S \in SUBSET LiveIDs : ConFetch(cmd, ok, S)
    \/ \E cmd \in Lines, ok \in BOOLEAN, S \in SUBSET LiveIDs : ConFetchJ(cmd, ok, S)
    \/ \E ok \in BOOLEAN : ConEnd(ok)
    \/ Cancel

SpecConsole == InitConsole /\ [][NextConsole]_vars

(* ---------------------------------------------------------------------- *)
(* The loop with fetchLiveList followed request by request                 *)
(* ---------------------------------------------------------------------- *)

\* a run in which no goroutine is started: the upstream lists no room of
\* the watched owner
InitFetch ==
    /\ Start
    /\ limit = 0
    /\ lc = NoLookup
    /\ fl = NewFetch
    /\ hi = NoConsole
    /\ lp = NoPool

\* fetchLiveList makes a request and receives resp
FetchRequest(resp) ==
    /\ pc = "fetch" /\ fl.pc = "req"
    /\ resp.liveList \subseteq rooms
    /\ BagCardinality(tasks) + Cardinality(Spawns(resp.liveList)) <= limit
    /\ fl' = Request(fl, resp)
    /\ UNCHANGED <<main, db, lc, hi, lp>>

\* fetchLiveList returns (list, e) to the closure runThrice called
FetchReturn ==
    /\ pc = "fetch" /\ fl.pc \in {"ok", "err"}
    /\ rt' = RunCall(rt, fl.pc = "ok")
    /\ IF fl.pc = "ok"
       THEN /\ newList' = fl.list
            /\ scen' = Follow(scen, DOMAIN fl.list)
            /\ pc' = "new"
       ELSE /\ pc' = "backoff"
            /\ UNCHANGED <<newList, scen>>
    /\ fl' = NewFetch
    /\ UNCHANGED <<oldList, cancelled, db, tasks, started, ended, prevSnap, env, lc, hi, lp>>

NextFetch ==
    \/ LoopTop
    \/ \E resp \in ListResponses : FetchRequest(resp)
    \/ FetchReturn
    \/ LoopBackoff
    \/ LoopNew
    \/ LoopOld
    \/ LoopAssign
    \/ LoopSleep

SpecFetch == InitFetch /\ [][NextFetch]_vars

(* ---------------------------------------------------------------------- *)
(* The loop and its goroutines with the objects of livePool                *)
(* ---------------------------------------------------------------------- *)

\* one watched and one unwatched room
InitPool == Start /\ rooms = {"A", "X"} /\ limit = MaxLive /\ Idle

\* fetchLiveList returned the rooms S, each in an object g gave it
PoolFetchOK(S, g) ==
    /\ pc = "fetch"
    /\ S \subseteq rooms
    /\ BagCardinality(tasks) + Cardinality(Spawns(S)) <= limit
    /\ g \in Gets(lp, S)
    /\ rt' = RunCall(rt, TRUE)
    /\ newList' = LiveList(S)
    /\ scen' = Follow(scen, S)
    /\ pc' = "new"
    /\ lp' = [lp EXCEPT !.new = g, !.pool = @ \ Range(g)]
    /\ UNCHANGED <<oldList, cancelled, db, tasks, started, ended, prevSnap, env, lc, fl, hi>>

\* a second range statement that puts every object of oldList back
PooledAll == DOMAIN oldList

\* the rooms whose object the second range statement puts back at once:
\* the else branch, livePool.Put(l)
Pooled == {id \in DOMAIN oldList : ~IsGone(id)}

\* for _, l := range oldList {...}: the object of a room that is gone goes
\* to its end-side goroutine (watched owner) or is dropped, the object of a
\* room still listed goes back to the pool
PoolOld ==
    /\ pc = "old"
    /\ ended' = Ended
    /\ LET W == {id \in Ended : Watched(oldList[id])} IN
        /\ tasks' = tasks (+) SetToBag({EndTask(oldList[id]) : id \in W})
        /\ lp' = [lp EXCEPT !.held = @ \cup {<<id, lp.old[id]>> : id \in W},
                            !.pool = @ \cup {lp.old[id] : id \in Pooled}]
    /\ pc' = "assign"
    /\ UNCHANGED <<rt, oldList, newList, cancelled, db, started, prevSnap, scen, env, lc, fl, hi>>

\* oldList = newList
PoolAssign ==
    /\ pc = "assign"
    /\ oldList' = NextOldList
    /\ started' = {}
    /\ ended' = {}
    /\ prevSnap' = DOMAIN newList
    /\ pc' = "sleep"
    /\ lp' = [lp EXCEPT !.old = lp.new]
    /\ UNCHANGED <<rt, newList, cancelled, db, tasks, scen, env, lc, fl, hi>>

\* the end-side goroutine returns: defer livePool.Put(l)
PoolTaskReturn(t, o) ==
    /\ Alive
    /\ t \in Live /\ t.kind = "end" /\ t.pc \in {"failed", "zero", "done"}
    /\ <<t.liveID, o>> \in lp.held
    /\ tasks' = tasks (-) SetToBag({t})
    /\ lp' = [lp EXCEPT !.held = @ \ {<<t.liveID, o>>}, !.pool = @ \cup {o}]
    /\ UNCHANGED <<pc, rt, oldList, newList, cancelled, db, started, ended, prevSnap, scen, env, lc, fl, hi>>

\* the console's fetch or fetch_j: its fetchLiveList takes the objects T
\* from the pool, one for a room at most, writes them, and they are not
\* put back
PoolConsoleFetch(T) ==
    /\ Alive
    /\ T # {} /\ T \subseteq lp.pool
    /\ Cardinality(T) <= Cardinality(rooms)
    /\ lp' = [lp EXCEPT !.pool = @ \ T]
    /\ UNCHANGED <<main, db, lc, fl, hi>>

NextPool ==
    \/ LoopTop
    \/ pc = "fetch" /\ \E S \in SUBSET rooms : \E g \in Gets(lp, S) : PoolFetchOK(S, g)
    \/ LoopFetchErr
    \/ LoopBackoff
    \/ LoopNew
    \/ PoolOld
    \/ PoolAssign
    \/ LoopSleep
    \/ \E t \in Live : \E num \in CutNums : CutCallOK(t, num)
    \/ \E t \in Live : CutCallErr(t)
    \/ \E t \in Live : TaskBackoff(t)
    \/ \E t \in Live : CutUpdate(t)
    \/ \E t \in Live : EndGrace(t)
    \/ \E t \in Live : \E dur \in Durations : EndCallOK(t, dur)
    \/ \E t \in Live : EndCallErr(t)
    \/ \E t \in Live : EndInsert(t)
    \/ \E t \in Live : EndUpdate(t)
    \/ \E t \in Live : t.kind = "cut" /\ TaskReturn(t)
    \/ \E t \in Live : \E o \in Objects : PoolTaskReturn(t, o)
    \/ \E T \in SUBSET lp.pool : PoolConsoleFetch(T)

SpecPool == InitPool /\ [][NextPool]_vars

(* ---------------------------------------------------------------------- *)
(* Properties                                                              *)
(* ---------------------------------------------------------------------- *)

\* every runThrice frame there is: the loop's and the goroutines'
Frames == {rt} \cup {t.rt : t \in Live}

\* the row stored for id, when there is one
Stored(id) == db[id] # <<>>

Row(id) == db[id][1]

\* the goroutines of the bag b that work for the room id
RECURSIVE Count(_, _)
Count(b, S) ==
    IF S = {} THEN 0
    ELSE LET t == CHOOSE x \in S : TRUE IN CopiesIn(t, b) + Count(b, S \ {t})

NumFor(b, id) == Count(b, {t \in BagToSet(b) : t.liveID = id})

C1_Classified ==
    /\ pc \in {"old", "assign"} => started = DOMAIN newList \ DOMAIN oldList
    /\ pc = "assign" =>
        /\ ended = DOMAIN oldList \ DOMAIN newList
        /\ started \cap ended = {}
        /\ started \cup (DOMAIN oldList \cap DOMAIN newList) \cup ended
              = DOMAIN oldList \cup DOMAIN newList

C1_BothUntouched ==
    (LoopNew \/ LoopOld) =>
        \A id \in DOMAIN oldList \cap DOMAIN newList :
            /\ db'[id] = db[id]
            /\ NumFor(tasks', id) = NumFor(tasks, id)

\* C1: after the two range statements, and before the owner is looked at,
\* the rooms classified as started are exactly those of newList absent from
\* oldList and the rooms classified as ended exactly those of oldList absent
\* from newList; the two sets are disjoint and with the rooms of both lists
\* cover the union; a room of both lists gets no insert and no goroutine.
C1_Reconcile == []C1_Classified /\ [][C1_BothUntouched]_vars

\* a room is listed in both snapshots beside one that is new
C1_Witness ==
    /\ pc = "assign"
    /\ started # {}
    /\ DOMAIN oldList \cap DOMAIN newList # {}

C2_OneRow == \A id \in LiveIDs : Len(db[id]) <= 1

C2_InsertKeeps ==
    /\ \A t \in Live : EndInsert(t) /\ Stored(t.liveID) => db' = db
    /\ LoopNew => \A id \in LiveIDs : Stored(id) => db'[id] = db[id]

\* C2: the store holds at most one row per liveID, and an insert for a
\* liveID that is stored already (by the end-side goroutine, or by the loop
\* for a room that was gone and is listed again) leaves the stored row as
\* it is, duration and liveCutNum included.
C2_Upsert == []C2_OneRow /\ [][C2_InsertKeeps]_vars

C2_Witness ==
    /\ pc = "old"
    /\ "A" \in started
    /\ Stored("A")
    /\ Row("A").duration # 0
    /\ Row("A").liveCutNum # 0

C3_Keeps ==
    \A id \in LiveIDs :
        /\ Len(db'[id]) >= Len(db[id])
        /\ \A i \in 1..Len(db[id]) :
            /\ db[id][i].duration # 0 => db'[id][i].duration = db[id][i].duration
            /\ db[id][i].liveCutNum # 0 => db'[id][i].liveCutNum = db[id][i].liveCutNum

\* C3: no step resets a stored duration or liveCutNum that is not zero, or
\* replaces it by another value, and no step removes a row.
C3_Monotonic == [][C3_Keeps]_vars

\* an end-side goroutine has issued its update with a duration other than
\* the stored one, and the stored one stands
C3_Witness ==
    \E t \in Live :
        /\ t.kind = "end" /\ t.pc = "done"
        /\ Stored(t.liveID)
        /\ Row(t.liveID).duration # 0
        /\ Row(t.liveID).duration # t.val

\* C4: runThrice calls the operation at most 3 times and not again after a
\* success (it has then called once more than it failed); when it returns
\* an error it has called exactly 3 times and returns the error of the
\* third call.
C4_RunThrice ==
    \A f \in Frames :
        /\ f.calls <= 3
        /\ f.phase = "ok" => f.calls = f.retry + 1 /\ f.err = 0
        /\ f.phase = "fail" => f.calls = 3 /\ f.err = 3

\* the operation failed twice and then succeeded
C4_Witness == rt.phase = "ok" /\ rt.retry = 2 /\ rt.calls = 3

\* C5: a runThrice that returns an error has slept exactly twice (the
\* delay falls between attempts only, none after the third failure).
C5_TwoDelays == \A f \in Frames : f.phase = "fail" => f.sleeps = 2

C6_Ended == (rt.phase = "fail") <=> (pc = "exited")

C6_Frozen ==
    /\ pc = "exited" => UNCHANGED <<pc, rt, oldList, newList, db, tasks>>
    /\ pc \in {"fetch", "backoff"} /\ pc' = "exited" =>
            UNCHANGED <<oldList, newList, db, tasks>>

\* C6: the loop ends exactly when runThrice returns the error of the
\* snapshot fetch, and from then on nothing is fetched, reconciled,
\* inserted or started, and oldList stays what it was.
C6_FatalFetch == []C6_Ended /\ [][C6_Frozen]_vars

C6_Witness ==
    /\ pc = "exited"
    /\ rt.calls = 3
    /\ DOMAIN oldList # {}
    /\ tasks # EmptyBag

C7_NoWrite ==
    \A t \in Live :
        /\ t.err # 0 => t.pc = "failed" /\ t.ops = <<>>
        /\ t.pc = "failed" => t.err # 0

C7_Alone ==
    \A t \in Live :
        (TaskBackoff(t) /\ t.rt.retry + 1 = MaxRetry) =>
            /\ UNCHANGED <<pc, rt, oldList, newList, db>>
            /\ \E u \in BagToSet(tasks') :
                /\ u.kind = t.kind /\ u.liveID = t.liveID
                /\ tasks' (-) SetToBag({u}) = tasks (-) SetToBag({t})

\* C7: a goroutine whose lookup failed on all three attempts stands at its
\* log line and has issued no store call; the step in which its runThrice
\* gives up changes neither the store nor the loop nor any other goroutine.
C7_Isolated == []C7_NoWrite /\ [][C7_Alone]_vars

\* one room's goroutine has given up while the goroutine of another room
\* has issued its update, and the loop is in its next iteration
C7_Witness ==
    /\ pc = "fetch"
    /\ \E t \in Live, o \in Live :
        /\ t.pc = "failed"
        /\ o.liveID # t.liveID
        /\ o.pc = "done" /\ o.ops # <<>>

C8_Steps ==
    /\ scen = 1 /\ pc \in {"old", "assign"} =>
            started = {"A"} /\ Stored("A") /\ ~Stored("B")
    /\ scen = 2 /\ pc \in {"old", "assign"} => started = {"B"} /\ Stored("B")
    /\ scen = 2 /\ pc = "assign" => ended = {}
    /\ scen = 3 /\ pc \in {"old", "assign"} => started = {}
    /\ scen = 3 /\ pc = "assign" => ended = {"A"}
    /\ scen \in 1..3 =>
            \A t \in Live : t.kind = "end" => t.liveID = "A" /\ scen = 3
    /\ scen = 3 /\ pc \in {"assign", "sleep", "top", "fetch", "backoff"} =>
            Stored("A") /\ Stored("B") /\ Row("B").duration = 0

C8_Finalizes ==
    \A t \in Live :
        (scen = 3 /\ t.liveID = "A" /\ t.val = 600000 /\ EndUpdate(t)) =>
            Row("A").duration' = 600000

\* C8: with the snapshots {A}, {A,B}, {B}: iteration 1 classifies and
\* stores A alone, iteration 2 classifies and stores B alone and ends
\* nothing, iteration 3 starts nothing and ends A alone, and an end-side
\* goroutine exists for A only; B's stored duration is 0 throughout, and
\* the update of A's end-side goroutine with the summary's 600000 makes A's
\* stored duration 600000.
C8_EndToEnd == []C8_Steps /\ [][C8_Finalizes]_vars

C8_Witness ==
    /\ scen = 3
    /\ Stored("A") /\ Row("A").duration = 600000
    /\ Stored("B") /\ Row("B").duration = 0
    /\ \E t \in Live : t.kind = "end" /\ t.liveID = "A" /\ t.pc = "done"

C10_ZeroState ==
    \A t \in Live :
        /\ t.pc = "zero" => t.kind = "end" /\ t.val = 0 /\ t.ops = <<>>
        /\ t.kind = "end" /\ t.pc \in {"insert", "update", "done"} => t.val # 0

C10_ZeroStep ==
    \A t \in Live :
        (t.pc = "zero" /\ CopiesIn(t, tasks') < CopiesIn(t, tasks)) =>
            /\ tasks' = tasks (-) SetToBag({t})
            /\ db' = db

\* C10: an end-side goroutine whose summary reports duration 0 stands at
\* its log line having issued no store call, none of its kind goes on to
\* insert or update with duration 0, and all it does from there is return,
\* leaving the store as it is.
C10_ZeroDuration == []C10_ZeroState /\ [][C10_ZeroStep]_vars

C10_Witness ==
    \E t \in Live :
        /\ t.pc = "zero"
        /\ Stored(t.liveID)
        /\ Row(t.liveID).duration = 0

\* the errors that a second call on the same response repeats: the body
\* does not parse, or liveCutUrl has not exactly one match
Deterministic == {"parse", "extract"}

\* C11: a cut-number goroutine whose fetchLiveCut returned a parse or
\* extraction error makes no further call: it has called once and its
\* runThrice is not about to call again.
C11_NoRetry ==
    lc.e \in Deterministic => lc.rt.calls = 1 /\ lc.rt.phase # "call"

\* the places of u where a slash is followed by a digit
Runs(u) == {i \in 1..(Len(u) - 1) : u[i] = "/" /\ IsDigit(u[i + 1])}

\* the last digit of the run of digits that begins after the slash at i
RunEnd(u, i) ==
    CHOOSE j \in (i + 1)..Len(u) :
        /\ \A k \in (i + 1)..j : IsDigit(u[k])
        /\ j = Len(u) \/ ~IsDigit(u[j + 1])

RECURSIVE Pow10(_)
Pow10(n) == IF n = 0 THEN 1 ELSE 10 * Pow10(n - 1)

RECURSIVE Decimal(_, _, _)
Decimal(u, a, b) ==
    IF a > b THEN 0 ELSE DigitVal(u[a]) * Pow10(b - a) + Decimal(u, a + 1, b)

\* the number written after the slash at i
RunValue(u, i) == Decimal(u, i + 1, RunEnd(u, i))

\* the places of u where a slash begins a segment made of digits only: the
\* run of digits after it ends the string or is followed by a slash
Segments(u) ==
    {i \in Runs(u) : RunEnd(u, i) = Len(u) \/ u[RunEnd(u, i) + 1] = "/"}

\* the response of the last call was parsed and its result is 0
WellFormed(r) == r.net /\ r.body = "json" /\ r.hasResult /\ r.result = 0

C12_Called == lc.rt.calls > 0 /\ WellFormed(lc.resp)

C13_EmptyUnlessBoth ==
    (hi.out = "links" /\ ~(hi.dis.ali # "" /\ hi.dis.tx # "")) =>
        hi.playback = NoPlayback

\* C19: no line makes handleInput panic.
C19_NoCrash == hi.pc # "crashed"

\* C14: once childCtx is cancelled, the loop makes no further call of
\* fetchLiveList: a backoff sleep that is pending is not followed by
\* another attempt.
C14_NoFetchAfterSignal == [][cancelled /\ pc = "backoff" => pc' # "fetch"]_vars

\* C15: whatever the goroutines are doing, the step the loop stands at can
\* be taken: the fetch can return, both range statements, the assignment
\* to oldList and the sleep can run, and the next iteration can begin.
C15_NeverWaits ==
    /\ pc = "top" => ENABLED LoopTop
    /\ pc = "fetch" => ENABLED LoopFetchErr /\ ENABLED (\E S \in SUBSET LiveIDs : LoopFetchOK(S))
    /\ pc = "backoff" => ENABLED LoopBackoff
    /\ pc = "new" => ENABLED LoopNew
    /\ pc = "old" => ENABLED LoopOld
    /\ pc = "assign" => ENABLED LoopAssign
    /\ pc = "sleep" => ENABLED LoopSleep

\* the loop fetches the next snapshot while a goroutine of an earlier
\* iteration sleeps or is in its call
C15_Witness ==
    /\ pc = "fetch"
    /\ \E t \in Live : t.pc \in {"grace", "run"}

C16_Stored ==
    /\ \A id \in DOMAIN oldList : Watched(oldList[id]) => Stored(id)
    /\ \A t \in Live : t.kind = "end" => Stored(t.liveID)
    /\ pc = "assign" => ended \subseteq DOMAIN oldList

C16_EndAfterStart ==
    /\ LoopOld => \A id \in Ended : Watched(oldList[id]) => Stored(id)
    /\ \A t \in Live : (EndInsert(t) \/ EndUpdate(t)) => Stored(t.liveID)

\* C16: every room of the watched owner in oldList was inserted by the
\* first range statement, so each room the second range statement finds
\* ended, each end-side goroutine, and each end-side insert and update
\* meets a row the loop has stored already.
C16_StartFirst == []C16_Stored /\ [][C16_EndAfterStart]_vars

\* an end-side goroutine has inserted, after the cut number of its room
\* was stored
C16_Witness ==
    \E t \in Live :
        /\ t.kind = "end" /\ t.pc = "update"
        /\ Row(t.liveID).liveCutNum # 0
        /\ Row(t.liveID).duration = 0

C20_Order ==
    \A t \in Live : t.kind = "end" =>
        /\ t.pc = "grace" => t.rt = NoFrame /\ t.val = 0
        /\ t.pc \in {"grace", "run", "failed", "zero", "insert"} => t.ops = <<>>
        /\ t.pc = "update" => t.ops = <<"insert">>
        /\ t.pc = "done" => t.ops = <<"insert", "updateLiveDuration">>
        /\ t.ops # <<>> => t.val # 0

C20_Steps ==
    /\ LoopOld =>
        \A u \in BagToSet(tasks') :
            (u.kind = "end" /\ CopiesIn(u, tasks') > CopiesIn(u, tasks)) =>
                u.pc = "grace"
    /\ \A t \in Live : \A dur \in Durations \ {0} :
        EndCallOK(t, dur) =>
            \E u \in BagToSet(tasks') :
                u.liveID = t.liveID /\ u.pc = "insert" /\ u.val = dur
    /\ \A t \in Live :
        EndUpdate(t) => db' = updateLiveDuration(db, t.liveID, t.val)

\* C20: an end-side goroutine starts in its 10 s sleep, with no call of
\* GetSummary made; it inserts only with a summary of non-zero duration,
\* updates only after its insert and with that duration, and issues at
\* most one insert and one update.
C20_EndOrder == []C20_Order /\ [][C20_Steps]_vars

C20_Witness ==
    \E t \in Live :
        /\ t.kind = "end" /\ t.pc = "done"
        /\ t.rt = NoFrame /\ t.val = 1200
        /\ Row(t.liveID).duration = 1200

C17_Escalates ==
    /\ fl.reqs <= 5
    /\ fl.pc = "req" => fl.count = BaseCount * Pow10(fl.reqs)
    /\ fl.pc = "req" /\ fl.reqs > 0 => fl.v.more
    /\ fl.pc = "ok" => ~fl.v.more /\ fl.list = LiveList(fl.v.liveList)
    /\ fl.e = "ceiling" =>
            fl.pc = "err" /\ fl.reqs = 5 /\ fl.count = CeilingCount /\ fl.v.more

C17_Stops ==
    \A resp \in ListResponses :
        (FetchRequest(resp) /\ WellFormed(resp)) =>
            /\ fl.count = BaseCount * Pow10(fl.reqs)
            /\ ~resp.more => fl'.pc = "ok" /\ DOMAIN fl'.list = resp.liveList
            /\ resp.more /\ fl.count # CeilingCount => fl'.count = 10 * fl.count
            /\ resp.more /\ fl.count = CeilingCount => fl'.e = "ceiling"

\* C17: the k-th request of fetchLiveList asks for 10000 * 10^(k-1) rooms;
\* the first response that says no_more ends the requests and the list is
\* built from it alone; a fifth response (count 10^8) that does not say
\* no_more is an error; no call makes more than 5 requests.
C17_PageSize == []C17_Escalates /\ [][C17_Stops]_vars

\* the request with count 10^8 was answered without no_more
C17_Witness == fl.e = "ceiling" /\ fl.reqs = 5

C18_Returns ==
    /\ fl.pc \in {"req", "ok", "err"}
    /\ fl.pc = "err" =>
            /\ fl.e \in {"transport", "gunzip", "parse", "result", "ceiling"}
            /\ fl.list = LiveList({})
    /\ fl.pc = "ok" => fl.e = NoErr /\ DOMAIN fl.list = fl.v.liveList
    /\ fl.pc = "req" => fl.e = NoErr
    /\ pc = "new" => \A id \in DOMAIN newList : newList[id] = NewLive(id)

C18_KeepsOld ==
    /\ pc \in {"fetch", "backoff"} => oldList' = oldList
    /\ (FetchReturn /\ fl.pc = "err") => UNCHANGED <<oldList, newList, db, tasks>>
    /\ (FetchReturn /\ fl.pc = "ok") => DOMAIN newList' = fl.v.liveList

\* C18: every failure of fetchLiveList ends in its return of an error and
\* no list; a failed attempt changes neither oldList nor newList; a call
\* that succeeds returns every room of the last response, the rooms of
\* other owners included.
C18_FetchErrors == []C18_Returns /\ [][C18_KeepsOld]_vars

\* after a failed attempt the next one returned a room of another owner,
\* which was listed before
C18_Witness ==
    /\ pc = "new"
    /\ rt.calls = 2
    /\ "X" \in DOMAIN newList
    /\ "X" \in DOMAIN oldList

C21_NoNewIteration ==
    /\ cancelled /\ pc = "top" => pc' # "fetch"
    /\ pc = "stopped" => pc' = "stopped"

C21_BreakFree == cancelled /\ pc = "top" => ENABLED LoopBreak

\* C21: once childCtx is cancelled the loop comes to its end (break, or
\* the return after a failed fetch); at the top of the loop it begins no
\* iteration, and its break is open whatever its goroutines are doing.
C21_Shutdown ==
    /\ cancelled ~> pc \in {"stopped", "exited"}
    /\ [][C21_NoNewIteration]_vars
    /\ []C21_BreakFree

\* the loop has left while an end-side goroutine sleeps or is in its call
C21_Witness ==
    /\ pc = "stopped"
    /\ \E t \in Live : t.kind = "end" /\ t.pc \in {"grace", "run"}

\* C23: when handleInput sends on quit, quitSignal is in its select and
\* can receive.
C23_Receivable == hi.pc = "send" => ENABLED ConSend

\* the objects oldList, the newList of this iteration and the end-side
\* goroutines refer to
OldObjs == Range(lp.old)

NewObjs == IF pc \in {"new", "old", "assign"} THEN Range(lp.new) ELSE {}

HeldObjs == {h[2] : h \in lp.held}

\* C22 as stated: in every state, no object of the pool is referred to by
\* oldList or by an end-side goroutine in flight.
C22_NeverReferenced == lp.pool \cap (OldObjs \cup HeldObjs) = {}

C22_Refs ==
    /\ DOMAIN lp.old = DOMAIN oldList
    /\ pc \in {"new", "old", "assign"} => DOMAIN lp.new = DOMAIN newList
    /\ \A a \in DOMAIN lp.old, b \in DOMAIN lp.old : a # b => lp.old[a] # lp.old[b]
    /\ \A a \in DOMAIN lp.new, b \in DOMAIN lp.new : a # b => lp.new[a] # lp.new[b]
    /\ Cardinality(lp.held) = Cardinality(HeldObjs)
    /\ Cardinality(lp.held) = Count(tasks, {t \in Live : t.kind = "end"})
    /\ OldObjs \cap NewObjs = {}
    /\ lp.pool \cap HeldObjs = {}
    /\ lp.pool \cap NewObjs = {}
    /\ pc # "assign" => lp.pool \cap OldObjs = {} /\ HeldObjs \cap OldObjs = {}
    /\ pc = "assign" =>
            \A id \in DOMAIN oldList :
                lp.old[id] \in lp.pool => ~IsGone(id) \/ Watched(oldList[id])

C22_PutOnce ==
    /\ PoolOld => \A id \in Pooled : lp.old[id] \notin lp.pool
    /\ \A t \in Live : \A o \in Objects : PoolTaskReturn(t, o) => o \notin lp.pool
    /\ \A o \in lp.pool' \ lp.pool : o \notin OldObjs' \/ pc' = "assign"

\* C22: no object of the pool is referred to by an end-side goroutine in
\* flight or by the newList just fetched; oldList refers to one only from
\* the second range statement to the assignment oldList = newList that
\* follows it, where the loop reads no object of oldList again, and it is
\* the object of a room still listed (put by the else branch) or of a
\* watched room that is gone (put by its goroutine on return); no two
\* holders share an object, and an object that is put is not in the pool
\* already.
C22_Pool == []C22_Refs /\ [][C22_PutOnce]_vars

\* objects are in the pool while oldList and an end-side goroutine hold
\* others
C22_Witness ==
    /\ pc = "sleep"
    /\ lp.pool # {}
    /\ lp.held # {}
    /\ DOMAIN oldList # {}

====
